---------------------------- MODULE Spec2Model ----------------------------
(***************************************************************************)
(* A model of backend/app/main.py of the healthcare chatbot: the /diagnose *)
(* handler (model client, fallback classifier, disclaimer, conversation    *)
(* log) and the read-only endpoints /history, /health and /.               *)
(*                                                                         *)
(* Texts are TLA+ strings.  TLA+ string literals are ASCII, so the two     *)
(* non-ASCII glyphs of the source's literals are transliterated: the       *)
(* warning sign is written "(!)" and the degree sign "deg".  Neither is    *)
(* part of any keyword the code matches on.                                *)
(***************************************************************************)
EXTENDS Integers, Sequences, FiniteSets, TLC

VARIABLES client, file, pc, req, resp, reply

vars == <<client, file, pc, req, resp, reply>>

(***************************************************************************)
(* Bounds of the model.                                                    *)
(***************************************************************************)
\* number of /diagnose requests the service receives
MaxReq == 2

Requests == 1..MaxReq

(***************************************************************************)
(* str.lower(), str.strip() and the substring test `k in s`.               *)
(***************************************************************************)
UpperLetters == "ABCDEFGHIJKLMNOPQRSTUVWXYZ"
LowerLetters == "abcdefghijklmnopqrstuvwxyz"

\* the lower-case letter of each upper-case letter
LowerOf ==
    [c \in {SubSeq(UpperLetters, i, i) : i \in 1..Len(UpperLetters)} |->
        LET i == CHOOSE j \in 1..Len(UpperLetters) : SubSeq(UpperLetters, j, j) = c
        IN  SubSeq(LowerLetters, i, i)]

LowerChar(c) == IF c \in DOMAIN LowerOf THEN LowerOf[c] ELSE c

RECURSIVE Lower(_)
Lower(s) ==
    IF s = "" THEN ""
    ELSE LowerChar(SubSeq(s, 1, 1)) \o Lower(SubSeq(s, 2, Len(s)))

Whitespace == {" ", "\t", "\n", "\r", "\f"}

RECURSIVE LStrip(_)
LStrip(s) ==
    IF s # "" /\ SubSeq(s, 1, 1) \in Whitespace
    THEN LStrip(SubSeq(s, 2, Len(s)))
    ELSE s

RECURSIVE RStrip(_)
RStrip(s) ==
    IF s # "" /\ SubSeq(s, Len(s), Len(s)) \in Whitespace
    THEN RStrip(SubSeq(s, 1, Len(s) - 1))
    ELSE s

Strip(s) == RStrip(LStrip(s))

\* Python's `k in s` for strings
In(k, s) ==
    \E i \in 1..(Len(s) - Len(k) + 1) : SubSeq(s, i, i + Len(k) - 1) = k

\* any(keyword in s for keyword in keywords)
AnyIn(keywords, s) == \E k \in keywords : In(k, s)

EndsWith(s, t) ==
    /\ Len(s) >= Len(t)
    /\ SubSeq(s, Len(s) - Len(t) + 1, Len(s)) = t

(***************************************************************************)
(* The constants of the source.                                            *)
(***************************************************************************)
FALLBACK_RESPONSES ==
    [mild |->
       [headache |-> "For mild headaches, try: Rest in a quiet, dark room; Stay hydrated; Apply a cold or warm compress to your head; Consider over-the-counter pain relievers like ibuprofen or acetaminophen. If headaches persist or worsen, consult a healthcare provider.",
        cold |-> "For common cold symptoms: Get plenty of rest; Stay hydrated with water, warm tea, or clear broths; Use a humidifier or breathe steam from a hot shower; Gargle with warm salt water for sore throat. Most cold symptoms resolve within 7-10 days. Consult a doctor if symptoms worsen or persist beyond 10 days.",
        fever |-> "For mild fever (under 102degF): Rest and stay hydrated; Use over-the-counter fever reducers like acetaminophen or ibuprofen; Dress lightly and use cool compresses; Monitor temperature regularly. Seek medical attention if fever exceeds 102degF, persists more than 3 days, or is accompanied by severe symptoms.",
        default |-> "Based on your symptoms, here are some general recommendations: Get adequate rest; Stay well-hydrated; Monitor your symptoms; Consider over-the-counter remedies if appropriate. However, if symptoms worsen, persist, or you have concerns, please consult with a healthcare professional for proper evaluation and treatment."],
     serious |->
       [chest |-> "(!) CHEST PAIN requires immediate medical attention. Please contact emergency services (911) or go to the nearest emergency room immediately. Do not delay seeking medical care for chest pain.",
        breathing |-> "(!) DIFFICULTY BREATHING is a serious symptom. Seek immediate medical attention by calling emergency services (911) or going to the nearest emergency room. This requires urgent evaluation by healthcare professionals.",
        severe |-> "(!) Based on your symptoms, this appears to require immediate medical attention. Please contact emergency services (911) or go to the nearest emergency room right away. Do not delay seeking professional medical care.",
        default |-> "(!) Your symptoms suggest you should seek medical attention promptly. Please contact your healthcare provider, urgent care center, or emergency services if symptoms are severe. Professional medical evaluation is recommended."]]

disclaimer == "\n\n(!) Disclaimer: This advice is for informational purposes only and does not replace professional medical consultation. Please consult a qualified healthcare provider for proper diagnosis and treatment."

\* serious_keywords and mild_indicators of get_fallback_response
fallback_serious_keywords ==
    {"chest pain", "chest", "breathing", "breath", "severe", "emergency",
     "unconscious", "bleeding heavily"}

mild_indicators == {"mild", "slight", "little", "minor"}

\* serious_keywords of diagnose_symptoms
response_serious_keywords ==
    {"doctor", "emergency", "hospital", "serious", "severe", "immediate",
     "urgent", "medical attention", "911", "seek care"}

(***************************************************************************)
(* Faulty variants of get_fallback_response, to test the properties with:  *)
(* the keyword chain over a given text, with a given severity for the      *)
(* generic serious response.                                               *)
(***************************************************************************)
fallback_variant(text, generic_severity) ==
    IF AnyIn(fallback_serious_keywords, text)
    THEN IF In("chest", text)
         THEN <<FALLBACK_RESPONSES.serious.chest, "serious">>
         ELSE IF In("breath", text)
         THEN <<FALLBACK_RESPONSES.serious.breathing, "serious">>
         ELSE <<FALLBACK_RESPONSES.serious.severe, generic_severity>>
    ELSE IF In("headache", text) \/ In("head", text)
    THEN <<FALLBACK_RESPONSES.mild.headache, "mild">>
    ELSE IF In("cold", text) \/ In("cough", text) \/ In("runny nose", text)
    THEN <<FALLBACK_RESPONSES.mild.cold, "mild">>
    ELSE IF In("fever", text) /\ In("mild", text)
    THEN <<FALLBACK_RESPONSES.mild.fever, "mild">>
    ELSE IF AnyIn(mild_indicators, text)
    THEN <<FALLBACK_RESPONSES.mild.default, "mild">>
    ELSE <<FALLBACK_RESPONSES.serious.default, "serious">>

\* the symptoms are matched as typed, without .lower()
get_fallback_response_case_sensitive(symptoms) ==
    fallback_variant(symptoms, "serious")

\* the generic serious response is returned with its key as the severity
get_fallback_response_key_as_severity(symptoms) ==
    fallback_variant(Lower(symptoms), "severe")

(***************************************************************************)
(* get_fallback_response(symptoms): the pair (response, severity).         *)
(***************************************************************************)
get_fallback_response(symptoms) ==
    LET symptoms_lower == Lower(symptoms) IN
    IF AnyIn(fallback_serious_keywords, symptoms_lower)
    THEN IF In("chest", symptoms_lower)
         THEN <<FALLBACK_RESPONSES.serious.chest, "serious">>
         ELSE IF In("breath", symptoms_lower)
         THEN <<FALLBACK_RESPONSES.serious.breathing, "serious">>
         ELSE <<FALLBACK_RESPONSES.serious.severe, "serious">>
    ELSE IF In("headache", symptoms_lower) \/ In("head", symptoms_lower)
    THEN <<FALLBACK_RESPONSES.mild.headache, "mild">>
    ELSE IF \/ In("cold", symptoms_lower)
            \/ In("cough", symptoms_lower)
            \/ In("runny nose", symptoms_lower)
    THEN <<FALLBACK_RESPONSES.mild.cold, "mild">>
    ELSE IF In("fever", symptoms_lower) /\ In("mild", symptoms_lower)
    THEN <<FALLBACK_RESPONSES.mild.fever, "mild">>
    ELSE IF AnyIn(mild_indicators, symptoms_lower)
    THEN <<FALLBACK_RESPONSES.mild.default, "mild">>
    ELSE <<FALLBACK_RESPONSES.serious.default, "serious">>


(***************************************************************************)
(* The conversation log file CONVERSATIONS_FILE.  The file is missing, or  *)
(* exists with content json.load cannot read (a write that failed after    *)
(* open(.., 'w') truncated the file leaves it so), or holds the document   *)
(* {"conversations": [...]} that save_conversation wrote.  The values of   *)
(* datetime.now() are not modelled: an entry and a response are their      *)
(* other fields.                                                           *)
(***************************************************************************)
MissingFile == [exists |-> FALSE, readable |-> FALSE, conversations |-> <<>>]
UnreadableFile == [exists |-> TRUE, readable |-> FALSE, conversations |-> <<>>]
JsonFile(data) == [exists |-> TRUE, readable |-> TRUE, conversations |-> data.conversations]

load_conversations(f) ==
    IF f.exists /\ f.readable
    THEN [conversations |-> f.conversations]
    ELSE [conversations |-> <<>>]

\* What the file system does to the write of lines 106-109: it succeeds, or
\* makedirs/open raises and the file is untouched, or the write raises after
\* open truncated the file.
IoOutcomes == {"ok", "open_fails", "write_fails"}

\* Faulty variants of save_conversation: the new entry is put first; and
\* the exceptions of the write are not caught.
save_conversation_prepends(data, f, user_input, ai_response, severity, io) ==
    LET conversation == [user |-> user_input,
                         response |-> ai_response,
                         severity |-> severity]
        appended == [conversations |-> <<conversation>> \o data.conversations]
    IN  [file |-> CASE io = "ok" -> JsonFile(appended)
                    [] io = "open_fails" -> f
                    [] io = "write_fails" -> UnreadableFile,
         written |-> (io = "ok"),
         raised |-> FALSE]

save_conversation_uncaught(data, f, user_input, ai_response, severity, io) ==
    LET conversation == [user |-> user_input,
                         response |-> ai_response,
                         severity |-> severity]
        appended == [conversations |-> Append(data.conversations, conversation)]
    IN  [file |-> CASE io = "ok" -> JsonFile(appended)
                    [] io = "open_fails" -> f
                    [] io = "write_fails" -> UnreadableFile,
         written |-> (io = "ok"),
         raised |-> (io # "ok")]

\* save_conversation after its load (line 96): the new file, and whether an
\* exception leaves the function (none does: line 110 catches them all).
save_conversation(data, f, user_input, ai_response, severity, io) ==
    LET conversation == [user |-> user_input,
                         response |-> ai_response,
                         severity |-> severity]
        appended == [conversations |-> Append(data.conversations, conversation)]
    IN  [file |-> CASE io = "ok" -> JsonFile(appended)
                    [] io = "open_fails" -> f
                    [] io = "write_fails" -> UnreadableFile,
         written |-> (io = "ok"),
         raised |-> FALSE]

(***************************************************************************)
(* The model client.  A call of client.chat.completions.create raises, or  *)
(* returns a message without content (so .strip() raises), or returns a    *)
(* text.                                                                   *)
(***************************************************************************)
NotCalled == [kind |-> "not_called", text |-> ""]
ApiError == [kind |-> "api_error", text |-> ""]
NoContent == [kind |-> "no_content", text |-> ""]
Completion(t) == [kind |-> "text", text |-> t]

\* Faulty variant: the disclaimer is forgotten.
add_disclaimer_forgotten(ai_response) == ai_response

\* lines 191-192
add_disclaimer(ai_response) == ai_response \o disclaimer

\* Faulty variant: the keywords are looked for in the text as the model
\* wrote it, without .lower().
response_severity_case_sensitive(ai_response) ==
    IF AnyIn(response_serious_keywords, ai_response) THEN "serious" ELSE "mild"

\* lines 175-180: the severity of a model response
response_severity(ai_response) ==
    IF AnyIn(response_serious_keywords, Lower(ai_response)) THEN "serious" ELSE "mild"

\* Faulty variant: no inner try, so an exception of the model call reaches
\* the outer handler.
diagnose_advice_no_inner_try(cl, symptoms, api) ==
    IF cl # "None"
    THEN IF api.kind = "text"
         THEN LET ai_response == Strip(api.text) IN
              [path |-> "model",
               ai_response |-> add_disclaimer(ai_response),
               severity |-> response_severity(ai_response),
               raised |-> FALSE]
         ELSE [path |-> "none", ai_response |-> "", severity |-> "mild",
               raised |-> TRUE]
    ELSE LET fb == get_fallback_response(symptoms) IN
         [path |-> "fallback_unconfigured",
          ai_response |-> add_disclaimer(fb[1]),
          severity |-> fb[2],
          raised |-> FALSE]

\* Lines 156-192 of diagnose_symptoms: the advice and severity, the branch
\* taken, and whether an exception reaches the outer handler (the inner try
\* catches those of the model call, and nothing else raises).
diagnose_advice(cl, symptoms, api) ==
    IF cl # "None"
    THEN IF api.kind = "text"
         THEN LET ai_response == Strip(api.text) IN
              [path |-> "model",
               ai_response |-> add_disclaimer(ai_response),
               severity |-> response_severity(ai_response),
               raised |-> FALSE]
         ELSE LET fb == get_fallback_response(symptoms) IN
              [path |-> "fallback_error",
               ai_response |-> add_disclaimer(fb[1]),
               severity |-> fb[2],
               raised |-> FALSE]
    ELSE LET fb == get_fallback_response(symptoms) IN
         [path |-> "fallback_unconfigured",
          ai_response |-> add_disclaimer(fb[1]),
          severity |-> fb[2],
          raised |-> FALSE]

(***************************************************************************)
(* The state machine.                                                      *)
(***************************************************************************)
NoRequest == [symptoms |-> "", api |-> NotCalled, path |-> "none",
              ai_response |-> "", severity |-> "mild",
              data |-> [conversations |-> <<>>],
              saved |-> "no", raised |-> FALSE]
NoResponse == [status |-> "none", advice |-> "", severity |-> "", detail |-> ""]
NoReply == [endpoint |-> "none", body |-> [none |-> TRUE]]

Init ==
    /\ client \in {"OpenAI", "None"}
    /\ file = MissingFile
    /\ pc = [r \in Requests |-> "idle"]
    /\ req = [r \in Requests |-> NoRequest]
    /\ resp = [r \in Requests |-> NoResponse]
    /\ reply = NoReply

\* Faulty variant: the /diagnose handlers run in a thread pool (plain `def`
\* handlers), so one starts while another is running.
EventLoopFree_thread_pool == reply = NoReply

\* The handlers are `async def` and never await: the event loop runs one
\* handler from its first line to its return before it starts another.
EventLoopFree ==
    /\ \A r \in Requests : pc[r] \in {"idle", "done"}
    /\ reply = NoReply

\* POST /diagnose, lines 153-192: a request is taken up with a symptoms text
\* of Symptoms, the model is called (its result one of Apis) or, without a
\* client, the fallback is used, and the disclaimer is appended.
Diagnose(r, Symptoms, Apis) ==
    /\ EventLoopFree
    /\ pc[r] = "idle"
    /\ \A q \in Requests : q < r => pc[q] # "idle"
    /\ \E s \in Symptoms, api \in (IF client = "None" THEN {NotCalled} ELSE Apis) :
         LET a == diagnose_advice(client, s, api) IN
         /\ req' = [req EXCEPT ![r] = [@ EXCEPT !.symptoms = s,
                                               !.api = api,
                                               !.path = a.path,
                                               !.ai_response = a.ai_response,
                                               !.severity = a.severity,
                                               !.raised = a.raised]]
         /\ pc' = [pc EXCEPT ![r] = IF a.raised THEN "return" ELSE "load"]
    /\ UNCHANGED <<client, file, resp, reply>>

\* save_conversation, line 96: data = load_conversations()
SaveLoad(r) ==
    /\ pc[r] = "load"
    /\ req' = [req EXCEPT ![r].data = load_conversations(file)]
    /\ pc' = [pc EXCEPT ![r] = "write"]
    /\ UNCHANGED <<client, file, resp, reply>>

\* save_conversation, lines 97-111: append the entry and rewrite the file
SaveWrite(r, io) ==
    /\ pc[r] = "write"
    /\ LET s == save_conversation(req[r].data, file, req[r].symptoms,
                                  req[r].ai_response, req[r].severity, io)
       IN /\ file' = s.file
          /\ req' = [req EXCEPT ![r].saved = IF s.written THEN "ok" ELSE "failed",
                                ![r].raised = s.raised]
    /\ pc' = [pc EXCEPT ![r] = "return"]
    /\ UNCHANGED <<client, resp, reply>>

\* diagnose_symptoms, lines 197-205: the response, or HTTP 500 for an
\* exception that reached the outer handler
Return(r) ==
    /\ pc[r] = "return"
    /\ resp' = [resp EXCEPT ![r] =
                  IF req[r].raised
                  THEN [NoResponse EXCEPT !.status = "500",
                                          !.detail = "Error processing request"]
                  ELSE [NoResponse EXCEPT !.status = "200",
                                          !.advice = req[r].ai_response,
                                          !.severity = req[r].severity]]
    /\ pc' = [pc EXCEPT ![r] = "done"]
    /\ UNCHANGED <<client, file, req, reply>>

\* GET /
root ==
    /\ EventLoopFree
    /\ reply' = [endpoint |-> "/",
                 body |-> [message |-> "Healthcare Chatbot API is running",
                           version |-> "1.0.0",
                           endpoints |-> <<"/diagnose", "/history">>,
                           openai_available |-> (client # "None")]]
    /\ UNCHANGED <<client, file, pc, req, resp>>

\* Faulty variant: /history writes an empty log when it finds none it can read.
get_conversation_history_repairs ==
    /\ EventLoopFree
    /\ reply' = [endpoint |-> "/history", body |-> load_conversations(file)]
    /\ file' = IF file.exists /\ file.readable
               THEN file
               ELSE JsonFile([conversations |-> <<>>])
    /\ UNCHANGED <<client, pc, req, resp>>

\* GET /history
get_conversation_history ==
    /\ EventLoopFree
    /\ reply' = [endpoint |-> "/history", body |-> load_conversations(file)]
    /\ UNCHANGED <<client, file, pc, req, resp>>

\* GET /health
health_check ==
    /\ EventLoopFree
    /\ reply' = [endpoint |-> "/health",
                 body |-> [status |-> "healthy",
                           openai_configured |-> (client # "None"),
                           conversations_file_exists |-> file.exists]]
    /\ UNCHANGED <<client, file, pc, req, resp>>

\* the reply of a GET handler is sent to its caller
SendReply ==
    /\ reply # NoReply
    /\ reply' = NoReply
    /\ UNCHANGED <<client, file, pc, req, resp>>

(***************************************************************************)
(* The service: a few requests, with the file system failing at will.      *)
(***************************************************************************)
ServiceSymptoms == {"Mild headache", "chest pain"}
ServiceCompletions == {" Rest and drink water.\n", "Please see a Doctor."}
ServiceApi == {ApiError, NoContent} \cup {Completion(t) : t \in ServiceCompletions}

Next ==
    \/ \E r \in Requests : Diagnose(r, ServiceSymptoms, ServiceApi)
    \/ \E r \in Requests : SaveLoad(r)
    \/ \E r \in Requests, io \in IoOutcomes : SaveWrite(r, io)
    \/ \E r \in Requests : Return(r)
    \/ root
    \/ get_conversation_history
    \/ health_check
    \/ SendReply

Spec == Init /\ [][Next]_vars


(***************************************************************************)
(* The classifiers: one request, the file system working, and a wide       *)
(* choice of symptoms texts and model outputs: every keyword of both       *)
(* keyword lists, in lower, upper and mixed case, inside longer words,     *)
(* broken by a space, and serious and mild keywords in one text.           *)
(***************************************************************************)
SeriousPhrases ==
    {"chest pain", "my Chest hurts", "CHEST", "trouble breathing", "Breath",
     "short of BREATH", "severe", "SEVERE pain", "persevered", "Emergency",
     "he is unconscious", "UNCONSCIOUS", "bleeding heavily", "Bleeding Heavily"}

NearSeriousPhrases ==
    {"bleeding", "bleeding  heavily", "heavily", "ches t", "brea th", "sever",
     "emergenc", "conscious"}

MildPhrases ==
    {"headache", "Headache", "my Head", "go ahead", "cold", "COLD", "scolded",
     "cough", "Cough", "runny nose", "Runny Nose", "fever", "mild fever",
     "Mild FEVER", "mild", "MILD", "slight", "Slightly", "little", "belittled",
     "minor", "Minor"}

OtherPhrases ==
    {"", " ", "tired", "nausea", "rash on my arm", "runny", "runny  nose",
     "hea d", "mil d", "sligh", "mino r", "FEVER", "co ld"}

Joined(A, B) == {a \o " and " \o b : a \in A, b \in B}

SymptomTexts ==
    SeriousPhrases \cup NearSeriousPhrases \cup MildPhrases \cup OtherPhrases
    \cup Joined(SeriousPhrases \cup NearSeriousPhrases, MildPhrases \cup OtherPhrases)
    \cup Joined(MildPhrases, SeriousPhrases \cup {"fever", "tired"})

ModelTexts ==
    {"", "   ", "Rest and drink fluids.", "  Rest at home.\n", "\n\tStay hydrated ",
     "Take an over-the-counter remedy.", "See a doctor.", "See a Doctor",
     "DOCTOR", "doc tor", "This is an emergency", "EMERGENCY!", "Go to the hospital",
     "Go to the Hospital now", "This may be serious", "SERIOUS", "A severe case",
     "Severe", "Seek immediate help", "IMMEDIATELY", "It is urgent", "Urgent",
     "You need medical attention", "Medical Attention", "medical  attention",
     "medical\nattention", "medical", "Call 911", "91 1", "seek care", "Seek Care now",
     "seekcare", "seek  care", "care", " See a doctor \n"}

ClassifyApi == {Completion(t) : t \in ModelTexts}

\* the symptoms texts the model path is tried with
ModelPathSymptoms ==
    {"", "chest pain", "Mild headache", "SEVERE pain and Cough", "tired", "see a doctor"}

NextClassify ==
    \/ Diagnose(1, SymptomTexts, {ApiError, NoContent})
    \/ Diagnose(1, ModelPathSymptoms, ClassifyApi)
    \/ SaveLoad(1)
    \/ SaveWrite(1, "ok")
    \/ Return(1)

SpecClassify == Init /\ [][NextClassify]_vars


(***************************************************************************)
(* Properties.                                                             *)
(***************************************************************************)
\* the entries /history would return now
Entries == load_conversations(file).conversations

CannedResponses ==
    {FALLBACK_RESPONSES.mild.headache, FALLBACK_RESPONSES.mild.cold,
     FALLBACK_RESPONSES.mild.fever, FALLBACK_RESPONSES.mild.default,
     FALLBACK_RESPONSES.serious.chest, FALLBACK_RESPONSES.serious.breathing,
     FALLBACK_RESPONSES.serious.severe, FALLBACK_RESPONSES.serious.default}

Severities == {"mild", "serious"}

FallbackUsed(r) == req[r].path \in {"fallback_error", "fallback_unconfigured"}

IsPrefix(a, b) == Len(a) <= Len(b) /\ SubSeq(b, 1, Len(a)) = a

\* C1: for every /diagnose request the fallback classifier is used if and
\* only if there is no model client or the model call (or the extraction of
\* its text) raised; on success the advice is the model's stripped text and
\* the disclaimer, and with the fallback it is one of the canned responses
\* and the disclaimer.
C1_FallbackIffNoModelText ==
    \A r \in Requests :
        pc[r] # "idle" =>
            /\ FallbackUsed(r) <=>
                  (client = "None" \/ req[r].api.kind \in {"api_error", "no_content"})
            /\ ~FallbackUsed(r) =>
                  /\ req[r].path = "model"
                  /\ req[r].api.kind = "text"
                  /\ req[r].ai_response = Strip(req[r].api.text) \o disclaimer
            /\ FallbackUsed(r) =>
                  \E c \in CannedResponses : req[r].ai_response = c \o disclaimer

C1_Witness ==
    /\ client = "OpenAI"
    /\ pc[1] = "done"
    /\ req[1].api.kind = "no_content"
    /\ req[1].path = "fallback_error"
    /\ resp[1].advice = FALLBACK_RESPONSES.mild.cold \o disclaimer

\* C2: on all three paths the advice of a response is the model or canned
\* text followed by the disclaimer, once; the disclaimer is there before the
\* interaction is saved, so every response field of the log ends with it too.
C2_DisclaimerAppended ==
    /\ \A r \in Requests :
          resp[r].status = "200" =>
             /\ EndsWith(resp[r].advice, disclaimer)
             /\ resp[r].advice =
                   (IF req[r].path = "model"
                    THEN Strip(req[r].api.text)
                    ELSE get_fallback_response(req[r].symptoms)[1]) \o disclaimer
    /\ \A r \in Requests :
          pc[r] \in {"load", "write", "return"} => EndsWith(req[r].ai_response, disclaimer)
    /\ \A i \in DOMAIN Entries : EndsWith(Entries[i].response, disclaimer)

C2_Witness ==
    /\ pc[1] = "done" /\ resp[1].status = "200" /\ req[1].path = "model"
    /\ pc[2] = "done" /\ resp[2].status = "200" /\ req[2].path = "fallback_error"
    /\ Len(Entries) = 2

\* what save_conversation records for request r
EntryOf(r) ==
    [user |-> req[r].symptoms, response |-> req[r].ai_response,
     severity |-> req[r].severity]

C4_HistoryKeepsEveryEntry ==
    /\ [][IsPrefix(Entries, Entries')]_vars
    /\ [](reply.endpoint = "/history" => reply.body.conversations = Entries)

\* C5: the severity of every response and of every log entry is "mild" or
\* "serious".
C5_SeverityMildOrSerious ==
    /\ \A r \in Requests :
          /\ pc[r] # "idle" => req[r].severity \in Severities
          /\ resp[r].status = "200" => resp[r].severity \in Severities
    /\ \A i \in DOMAIN Entries : Entries[i].severity \in Severities

C5_Witness ==
    /\ pc[1] = "done"
    /\ req[1].path = "fallback_error"
    /\ resp[1].advice = FALLBACK_RESPONSES.serious.severe \o disclaimer
    /\ Len(Entries) = 1

\* the keywords as the claim C6 lists them
C6_SeriousKeywords ==
    {"chest pain", "chest", "breathing", "breath", "severe", "emergency",
     "unconscious", "bleeding heavily"}
C6_MildKeywords ==
    {"head", "cold", "cough", "runny nose", "mild", "slight", "little", "minor"}

\* C6: the fallback's severity is "mild" if and only if the lower-cased
\* symptoms contain no serious keyword and at least one mild keyword; a text
\* with no keyword at all gets the serious default response.
C6_FallbackSeriousFirst ==
    \A r \in Requests :
        (pc[r] # "idle" /\ FallbackUsed(r)) =>
            LET text == Lower(req[r].symptoms)
                serious == AnyIn(C6_SeriousKeywords, text)
                mild == AnyIn(C6_MildKeywords, text)
            IN  /\ req[r].severity = "mild" <=> (~serious /\ mild)
                /\ req[r].severity = "serious" <=> (serious \/ ~mild)
                /\ (~serious /\ ~mild) =>
                      req[r].ai_response = FALLBACK_RESPONSES.serious.default \o disclaimer

C6_Witness ==
    /\ pc[1] # "idle"
    /\ FallbackUsed(1)
    /\ req[1].symptoms = "SEVERE pain and Cough"
    /\ req[1].severity = "serious"

\* the keywords as the claim C7 lists them
C7_SeriousKeywords ==
    {"doctor", "emergency", "hospital", "serious", "severe", "immediate",
     "urgent", "medical attention", "911", "seek care"}

\* C7: on the model path the severity is "serious" if and only if the
\* lower-cased model response, before the disclaimer, contains one of the
\* keywords, and "mild" otherwise, whatever the symptoms.
C7_ModelSeverityFromText ==
    \A r \in Requests :
        (pc[r] # "idle" /\ req[r].path = "model") =>
            LET text == Lower(Strip(req[r].api.text))
                serious == AnyIn(C7_SeriousKeywords, text)
            IN  /\ req[r].severity = "serious" <=> serious
                /\ req[r].severity = "mild" <=> ~serious
                /\ req[r].ai_response = Strip(req[r].api.text) \o disclaimer

C7_Witness ==
    /\ pc[1] = "done"
    /\ req[1].path = "model"
    /\ req[1].symptoms = "Mild headache"
    /\ req[1].api.text = "Go to the Hospital now"
    /\ resp[1].severity = "serious"

\* C8: a /diagnose request never ends in HTTP 500: a handler that has
\* started can always take its next step, no exception reaches the outer
\* handler, and the request ends with status 200, an advice and a severity,
\* also when the model call or the save failed.
C8_NeverError500 ==
    \A r \in Requests :
        /\ ~req[r].raised
        /\ resp[r].status # "500"
        /\ pc[r] \in {"load", "write", "return"} =>
              ENABLED (SaveLoad(r) \/ SaveWrite(r, "ok") \/ Return(r))
        /\ pc[r] = "done" =>
              /\ resp[r].status = "200"
              /\ resp[r].advice # ""
              /\ resp[r].severity \in Severities

C8_Witness ==
    \E r \in Requests :
        /\ pc[r] = "done"
        /\ req[r].path = "fallback_error"
        /\ req[r].saved = "failed"
        /\ ~file.readable
        /\ resp[r].status = "200"

\* no two requests are inside diagnose_symptoms at once
NoInterleaving ==
    \A r1, r2 \in Requests :
        (r1 # r2 /\ pc[r1] \in {"load", "write", "return"}) =>
            pc[r2] \in {"idle", "done"}

\* the requests whose save_conversation has returned
Saved == {r \in Requests : pc[r] \in {"return", "done"}}

GetStep == reply = NoReply /\ reply' # NoReply

\* C10: the steps of /history, /health and / change neither the log file
\* nor the client; the file changes only in the write of save_conversation
\* of a /diagnose request; the client never changes.
C10_ReadOnlyEndpoints ==
    [][/\ GetStep => (file' = file /\ client' = client)
       /\ file' # file => \E r \in Requests : pc[r] = "write" /\ pc'[r] = "return"
       /\ client' = client]_vars

C10_Witness ==
    /\ reply.endpoint = "/history"
    /\ reply.body.conversations = <<>>
    /\ file.exists
    /\ ~file.readable

=============================================================================
